---- MODULE Spec2Model ----
(***************************************************************************)
(* GhostTouch: the gesture controller of main.py as a state machine.       *)
(*                                                                         *)
(* One iteration of GestureController.run is a tick.  A tick reads a pose, *)
(* and when a hand is present runs detect_fingers and update_mode (action  *)
(* HandTick) and then the handler of the committed mode (HandleScroll,     *)
(* HandleVolume or HandleIdle).  A tick without a hand is AbsentTick.      *)
(*                                                                         *)
(* Numbers.  Python floats are kept in fixed point: speeds, momentum,      *)
(* multipliers and volume levels in thousandths (10.0 is 10000), pixel     *)
(* distances in tenths of a pixel (50px is 500), times in milliseconds.    *)
(* Products are rounded to the nearest unit, as a float product is.        *)
(*                                                                         *)
(* Left out: the drawing calls, the FPS counter (previous_time), the       *)
(* volume bar fields and gesture_history, which the code writes and never  *)
(* reads.                                                                  *)
(***************************************************************************)
EXTENDS Integers, Sequences, FiniteSets, TLC

VARIABLES
    controller,     \* the GestureController instance: a record of its fields
    landmark_list,  \* run: the pose of the current tick (<<>> when no hand)
    fingers,        \* run: the finger vector detect_fingers returned this tick
    pc,             \* run: "read" (top of the loop) or "dispatch" (after update_mode)
    ticks,          \* number of ticks started so far
    old_mode,       \* history: the committed mode when the current tick started
    streak,         \* history: consecutive ticks, up to this one, with the same candidate
    streak_mode,    \* history: that candidate mode ("None" after a tick without a hand)
    escaped,        \* history: Escape was seen in Volume mode and Volume not committed since
    coast,          \* history: consecutive scroll-handler ticks, up to this one, that only decayed
    coast_from,     \* history: the momentum when that run of decay ticks started
    earlier_history \* history: the distance history as the current tick found it

vars == <<controller, landmark_list, fingers, pc, ticks, old_mode, streak,
          streak_mode, escaped, coast, coast_from, earlier_history>>

----------------------------------------------------------------------------
(* Arithmetic *)

Abs(a) == IF a < 0 THEN -a ELSE a

Sgn(a) == IF a < 0 THEN -1 ELSE 1

Min(a, b) == IF a <= b THEN a ELSE b

\* a / b rounded to the nearest integer (b > 0), symmetric about 0
RDiv(a, b) == Sgn(a) * ((2 * Abs(a) + b) \div (2 * b))

\* product of two thousandths, in thousandths
MulMilli(a, b) == RDiv(a * b, 1000)

RECURSIVE ISqrtFrom(_, _, _)
ISqrtFrom(v, lo, hi) ==
    IF lo >= hi THEN lo
    ELSE LET mid == (lo + hi + 1) \div 2
         IN  IF mid * mid <= v THEN ISqrtFrom(v, mid, hi)
                               ELSE ISqrtFrom(v, lo, mid - 1)

\* math.hypot of two pixel differences, in tenths of a pixel
hypot(dx, dy) == ISqrtFrom((dx * dx + dy * dy) * 100, 0, 10000)

\* np.interp(x, [xp0, xp1], [fp0, fp1]): linear inside, clamped outside
interp(x, xp0, xp1, fp0, fp1) ==
    IF x <= xp0 THEN fp0
    ELSE IF x >= xp1 THEN fp1
    ELSE fp0 + RDiv((x - xp0) * (fp1 - fp0), xp1 - xp0)

\* Python int(): thousandths truncated toward zero to whole units
int(m) == Sgn(m) * (Abs(m) \div 1000)

\* Python round(): thousandths to the nearest whole unit, halves to even
round(m) ==
    LET q == Abs(m) \div 1000
        r == Abs(m) % 1000
    IN  Sgn(m) * (IF r > 500 \/ (r = 500 /\ q % 2 = 1) THEN q + 1 ELSE q)

----------------------------------------------------------------------------
(* Constants of main.py *)

CAMERA_WIDTH == 640

FINGER_IDS == <<4, 8, 12, 16, 20>>

VOLUME_RANGE == <<-63500, 0>>

HAND_RANGE == <<500, 2000>>

SCROLL_SPEED_RANGE == <<1000, 30000>>

SCROLL_MOMENTUM_DECAY == 920

GESTURE_HISTORY_LENGTH == 10

THUMB_INDEX_PROXIMITY_THRESHOLD == 800

MIN_VOLUME_GESTURE_LENGTH == 400

mode_switch_threshold == 5

scroll_cooldown == 25

\* the elapsed time above which the adaptive multiplier is reset (ms)
ACTIVE_SCROLL_WINDOW == 500

\* the cap of the adaptive multiplier
ADAPTIVE_CAP == 1500

\* the growth factor of the adaptive multiplier
ADAPTIVE_GROWTH == 1010

\* the momentum below which it is snapped to 0
MOMENTUM_THRESHOLD == 500

----------------------------------------------------------------------------
(* Landmarks.  A landmark is <<id, x, y>> as find_position returns it;     *)
(* Python's landmark_list[k] is LM(l, k), its [1] is X and its [2] is Y.   *)

LM(l, k) == l[k + 1]

X(p) == p[2]

Y(p) == p[3]

\* A right-oriented hand (pinky base right of index base) with the given
\* fingers extended (1) or folded (0), the thumb tip ti pixels left of the
\* index tip and the middle tip im pixels right of it, all three on one row.
Hand(th, ix, mi, ri, pk, ti, im) ==
    LET y8  == IF ix = 1 THEN 150 ELSE 280
        x4  == 300 - ti
        tipY(f) == IF f = 1 THEN 150 ELSE 280
    IN  << <<0, 350, 400>>,
           <<1, 320, 360>>, <<2, 300, 330>>,
           <<3, IF th = 1 THEN x4 + 20 ELSE x4 - 20, y8 + 30>>, <<4, x4, y8>>,
           <<5, 300, 300>>, <<6, 300, 250>>, <<7, 300, 200>>, <<8, 300, y8>>,
           <<9, 340, 300>>, <<10, 300 + im, IF mi = 1 THEN y8 + 100 ELSE y8 - 30>>,
           <<11, 300 + im, y8 + 10>>, <<12, 300 + im, y8>>,
           <<13, 380, 300>>, <<14, 380, 250>>, <<15, 380, 200>>, <<16, 380, tipY(ri)>>,
           <<17, 420, 300>>, <<18, 420, 250>>, <<19, 420, 200>>, <<20, 420, tipY(pk)>> >>

----------------------------------------------------------------------------
(* GestureController: construction *)

\* the volume ranges GetVolumeRange may report at session start (min, max)
DeviceRanges == { <<-63500, 0>>, <<-96000, 0>>, <<-30000, 0>> }

\* the range of the usual Windows endpoint, the one VOLUME_RANGE repeats
NominalRange == <<-63500, 0>>

\* the controller after __init__, for a device reporting range vr
InitController(vr) ==
    [ volume_range              |-> vr,
      mode                      |-> "N",
      active                    |-> FALSE,
      scroll_momentum           |-> 0,
      time_scrolling            |-> 0,      \* time.time() - last_scroll_time, ms
      adaptive_scroll_speed     |-> 1000,
      finger_distance_history   |-> <<>>,
      thumb_index_distance      |-> 0,
      mode_switch_counter       |-> 0,
      pending_mode              |-> "None",
      scroll_calls              |-> <<>>,   \* pyautogui.scroll calls of this tick
      volume_calls              |-> <<>> ]  \* SetMasterVolumeLevel calls of this tick

\* a deque without maxlen: append never evicts
deque_append_unbounded(d, x, n) == Append(d, x)

\* deque(maxlen=n).append(x)
deque_append(d, x, n) ==
    IF Len(d) >= n THEN Append(Tail(d), x) ELSE Append(d, x)

\* sum(d)
RECURSIVE sum(_)
sum(d) == IF d = <<>> THEN 0 ELSE Head(d) + sum(Tail(d))

----------------------------------------------------------------------------
(* detect_fingers *)

\* the orientation taken for a right hand whatever the landmarks
hand_direction_always_right(l) == "right"

hand_direction(l) ==
    IF X(LM(l, 17)) > X(LM(l, 5)) THEN "right" ELSE "left"

thumb_extended(l) ==
    LET thumb_tip  == LM(l, FINGER_IDS[1])
        thumb_base == LM(l, FINGER_IDS[1] - 1)
    IN  IF hand_direction(l) = "right"
        THEN (IF X(thumb_tip) < X(thumb_base) THEN 1 ELSE 0)
        ELSE (IF X(thumb_tip) > X(thumb_base) THEN 1 ELSE 0)

finger_extended(l, finger_id) ==
    IF Y(LM(l, finger_id)) < Y(LM(l, finger_id - 2)) THEN 1 ELSE 0

\* the list detect_fingers returns
detect_fingers(l) ==
    IF l = <<>> THEN <<>>
    ELSE << thumb_extended(l),
            finger_extended(l, FINGER_IDS[2]),
            finger_extended(l, FINGER_IDS[3]),
            finger_extended(l, FINGER_IDS[4]),
            finger_extended(l, FINGER_IDS[5]) >>

\* what detect_fingers stores in the controller
detect_fingers_store(self, l) ==
    IF l = <<>> \/ ~(Len(l) > 8) THEN self
    ELSE LET d == hypot(X(LM(l, 4)) - X(LM(l, 8)), Y(LM(l, 4)) - Y(LM(l, 8)))
         IN  [self EXCEPT
                !.thumb_index_distance = d,
                !.finger_distance_history =
                    deque_append(@, d, GESTURE_HISTORY_LENGTH)]

----------------------------------------------------------------------------
(* Gesture predicates *)

is_volume_gesture(self, f) ==
    IF f = <<>> \/ Len(f) < 5 THEN FALSE
    ELSE LET basic_pattern == f[1] = 1 /\ f[2] = 1 /\ f[3] = 0 /\ f[4] = 0 /\ f[5] = 0
             pinch_position == self.thumb_index_distance > MIN_VOLUME_GESTURE_LENGTH
         IN  basic_pattern /\ pinch_position

\* is_scroll_up_gesture without the distance gate
is_scroll_up_gesture_any_distance(self, f) ==
    IF f = <<>> \/ Len(f) < 5 THEN FALSE
    ELSE f[1] = 0 /\ f[2] = 1 /\ f[3] = 0 /\ f[4] = 0 /\ f[5] = 0

is_scroll_up_gesture(self, f) ==
    IF f = <<>> \/ Len(f) < 5 THEN FALSE
    ELSE LET basic_pattern == f[1] = 0 /\ f[2] = 1 /\ f[3] = 0 /\ f[4] = 0 /\ f[5] = 0
             not_volume_gesture ==
                 self.thumb_index_distance > THUMB_INDEX_PROXIMITY_THRESHOLD
         IN  basic_pattern /\ not_volume_gesture

is_scroll_down_gesture(self, f) ==
    IF f = <<>> \/ Len(f) < 5 THEN FALSE
    ELSE f[1] = 0 /\ f[2] = 1 /\ f[3] = 1 /\ f[4] = 0 /\ f[5] = 0

----------------------------------------------------------------------------
(* Mode switching *)

_reset_mode(self) ==
    [self EXCEPT !.active = FALSE, !.scroll_momentum = 0]

_set_scroll_mode(self) == [self EXCEPT !.active = TRUE]

_set_volume_mode(self) == [self EXCEPT !.active = TRUE]

\* _switch_mode without the reset of the adaptive parameters
_switch_mode_keeps_parameters(self, new_mode) ==
    LET s1 == [self EXCEPT !.mode = new_mode]
    IN  IF new_mode = "N" THEN _reset_mode(s1)
        ELSE IF new_mode = "Scroll" THEN _set_scroll_mode(s1)
        ELSE IF new_mode = "Volume" THEN _set_volume_mode(s1)
        ELSE s1

\* _switch_mode resetting the momentum only
_switch_mode_keeps_multiplier(self, new_mode) ==
    LET old  == self.mode
        s1   == [self EXCEPT !.mode = new_mode]
        s2   == IF new_mode = "N" THEN _reset_mode(s1)
                ELSE IF new_mode = "Scroll" THEN _set_scroll_mode(s1)
                ELSE IF new_mode = "Volume" THEN _set_volume_mode(s1)
                ELSE s1
    IN  IF old # new_mode THEN [s2 EXCEPT !.scroll_momentum = 0] ELSE s2

_switch_mode(self, new_mode) ==
    LET old  == self.mode
        s1   == [self EXCEPT !.mode = new_mode]
        s2   == IF new_mode = "N" THEN _reset_mode(s1)
                ELSE IF new_mode = "Scroll" THEN _set_scroll_mode(s1)
                ELSE IF new_mode = "Volume" THEN _set_volume_mode(s1)
                ELSE s1
    IN  IF old # new_mode
        THEN [s2 EXCEPT !.adaptive_scroll_speed = 1000, !.scroll_momentum = 0]
        ELSE s2

\* new_mode falling back to idle, not to the committed mode, when the
\* gesture is not recognised
candidate_mode_unknown_is_idle(self, f) ==
    IF f = <<0, 0, 0, 0, 0>> THEN "N"
    ELSE IF is_scroll_up_gesture(self, f) \/ is_scroll_down_gesture(self, f) THEN "Scroll"
    ELSE IF is_volume_gesture(self, f) THEN "Volume"
    ELSE "N"

\* the mode update_mode derives from the gesture of this tick (new_mode)
candidate_mode(self, f) ==
    IF f = <<0, 0, 0, 0, 0>> THEN "N"
    ELSE IF is_scroll_up_gesture(self, f) \/ is_scroll_down_gesture(self, f) THEN "Scroll"
    ELSE IF is_volume_gesture(self, f) THEN "Volume"
    ELSE self.mode

\* the gesture update_mode recognises, in the order it tests for them
gesture(self, f) ==
    IF f = <<0, 0, 0, 0, 0>> THEN "Idle"
    ELSE IF is_scroll_up_gesture(self, f) THEN "ScrollUp"
    ELSE IF is_scroll_down_gesture(self, f) THEN "ScrollDown"
    ELSE IF is_volume_gesture(self, f) THEN "VolumePinch"
    ELSE "Unknown"

update_mode(self, f) ==
    IF f = <<>>
    THEN [self EXCEPT !.pending_mode = "None", !.mode_switch_counter = 0]
    ELSE LET new_mode == candidate_mode(self, f)
         IN  IF new_mode # self.pending_mode
             THEN [self EXCEPT !.pending_mode = new_mode, !.mode_switch_counter = 0]
             ELSE LET s1 == [self EXCEPT !.mode_switch_counter = @ + 1]
                  IN  IF s1.mode_switch_counter >= mode_switch_threshold
                         /\ new_mode # s1.mode
                      THEN _switch_mode(s1, new_mode)
                      ELSE s1

----------------------------------------------------------------------------
(* Scroll handling *)

\* calculate_scroll_speed interpolating the base speed from 0, not from the
\* lower end of SCROLL_SPEED_RANGE
calculate_scroll_speed_from_zero(self, l) ==
    IF l = <<>> THEN 0
    ELSE LET index_tip  == LM(l, 8)
             middle_tip == LM(l, 12)
             distance   == hypot(X(index_tip) - X(middle_tip),
                                 Y(index_tip) - Y(middle_tip))
             base_speed == interp(distance, 300, 2000, 0, SCROLL_SPEED_RANGE[2])
             adjusted_speed == MulMilli(base_speed, self.adaptive_scroll_speed)
         IN  Min(adjusted_speed, MulMilli(SCROLL_SPEED_RANGE[2], 1500))

calculate_scroll_speed(self, l) ==
    IF l = <<>> THEN 0
    ELSE LET index_tip  == LM(l, 8)
             middle_tip == LM(l, 12)
             distance   == hypot(X(index_tip) - X(middle_tip),
                                 Y(index_tip) - Y(middle_tip))
             base_speed == interp(distance, 300, 2000,
                                  SCROLL_SPEED_RANGE[1], SCROLL_SPEED_RANGE[2])
             adjusted_speed == MulMilli(base_speed, self.adaptive_scroll_speed)
         IN  Min(adjusted_speed, MulMilli(SCROLL_SPEED_RANGE[2], 1500))

\* pyautogui.scroll(amount)
scroll(self, amount) == [self EXCEPT !.scroll_calls = Append(@, amount)]

\* _handle_scroll_up rounding the speed to the nearest unit
_handle_scroll_up_rounds(self, speed) ==
    LET s1 == [self EXCEPT !.scroll_momentum = speed]
        scroll_amount == round(s1.scroll_momentum)
    IN  IF scroll_amount > 0 THEN scroll(s1, scroll_amount) ELSE s1

_handle_scroll_up(self, speed) ==
    LET s1 == [self EXCEPT !.scroll_momentum = speed]
        scroll_amount == int(s1.scroll_momentum)
    IN  IF scroll_amount > 0 THEN scroll(s1, scroll_amount) ELSE s1

_handle_scroll_down(self, speed) ==
    LET s1 == [self EXCEPT !.scroll_momentum = -speed]
        scroll_amount == int(s1.scroll_momentum)
    IN  IF scroll_amount < 0 THEN scroll(s1, scroll_amount) ELSE s1

\* _handle_scroll_momentum emitting the rounded momentum whatever its size
_handle_scroll_momentum_emits_zero(self) ==
    IF Abs(self.scroll_momentum) > MOMENTUM_THRESHOLD
    THEN LET s1 == [self EXCEPT
                      !.scroll_momentum = MulMilli(@, SCROLL_MOMENTUM_DECAY)]
         IN  scroll(s1, round(s1.scroll_momentum))
    ELSE [self EXCEPT !.scroll_momentum = 0]

\* _handle_scroll_momentum decaying by the speed-derived modifier (0.95 at
\* full speed) instead of the module constant
_handle_scroll_momentum_modifier(self) ==
    IF Abs(self.scroll_momentum) > MOMENTUM_THRESHOLD
    THEN LET s1 == [self EXCEPT !.scroll_momentum = MulMilli(@, 950)]
             scroll_amount == round(s1.scroll_momentum)
         IN  IF Abs(scroll_amount) >= 1 THEN scroll(s1, scroll_amount) ELSE s1
    ELSE [self EXCEPT !.scroll_momentum = 0]

\* _handle_scroll_momentum decaying whatever the size of the momentum
_handle_scroll_momentum_never_snaps(self) ==
    LET s1 == [self EXCEPT
                 !.scroll_momentum = MulMilli(@, SCROLL_MOMENTUM_DECAY)]
        scroll_amount == round(s1.scroll_momentum)
    IN  IF Abs(scroll_amount) >= 1 THEN scroll(s1, scroll_amount) ELSE s1

\* _handle_scroll_momentum decaying by the modifier handle_scroll_mode
\* derives from the speed: 0.90 at speed 1 up to 0.95 at speed 30
_handle_scroll_momentum_dynamic(self) ==
    IF Abs(self.scroll_momentum) > MOMENTUM_THRESHOLD
    THEN LET momentum_modifier ==
                 interp(Abs(self.scroll_momentum),
                        SCROLL_SPEED_RANGE[1], SCROLL_SPEED_RANGE[2], 900, 950)
             s1 == [self EXCEPT
                      !.scroll_momentum = MulMilli(@, momentum_modifier)]
             scroll_amount == round(s1.scroll_momentum)
         IN  IF Abs(scroll_amount) >= 1 THEN scroll(s1, scroll_amount) ELSE s1
    ELSE [self EXCEPT !.scroll_momentum = 0]

\* SCROLL_MOMENTUM_DECAY here is the module constant: the assignments in
\* handle_scroll_mode bind a local name and never reach this function.
_handle_scroll_momentum(self) ==
    IF Abs(self.scroll_momentum) > MOMENTUM_THRESHOLD
    THEN LET s1 == [self EXCEPT
                      !.scroll_momentum = MulMilli(@, SCROLL_MOMENTUM_DECAY)]
             scroll_amount == round(s1.scroll_momentum)
         IN  IF Abs(scroll_amount) >= 1 THEN scroll(s1, scroll_amount) ELSE s1
    ELSE [self EXCEPT !.scroll_momentum = 0]

\* the sampling part of handle_scroll_mode: everything after the cooldown gate
sample_or_decay(self, f, l) ==
    LET scroll_speed == calculate_scroll_speed(self, l)
        s2 == IF is_scroll_up_gesture(self, f)
              THEN _handle_scroll_up(self, scroll_speed)
              ELSE IF is_scroll_down_gesture(self, f)
              THEN _handle_scroll_down(self, scroll_speed)
              ELSE _handle_scroll_momentum(self)
    IN  [s2 EXCEPT !.time_scrolling = 0]

\* handle_scroll_mode growing the multiplier without the cap
handle_scroll_mode_uncapped(self, f, l) ==
    LET time_scrolling == self.time_scrolling
        s1 == IF time_scrolling < ACTIVE_SCROLL_WINDOW
              THEN [self EXCEPT !.adaptive_scroll_speed = MulMilli(@, ADAPTIVE_GROWTH)]
              ELSE [self EXCEPT !.adaptive_scroll_speed = 1000]
    IN  IF time_scrolling < scroll_cooldown
        THEN _handle_scroll_momentum(s1)
        ELSE sample_or_decay(s1, f, l)

\* handle_scroll_mode setting last_scroll_time on the cooldown ticks as well
handle_scroll_mode_stamps_cooldown(self, f, l) ==
    LET time_scrolling == self.time_scrolling
        s1 == IF time_scrolling < ACTIVE_SCROLL_WINDOW
              THEN [self EXCEPT !.adaptive_scroll_speed =
                                   Min(MulMilli(@, ADAPTIVE_GROWTH), ADAPTIVE_CAP)]
              ELSE [self EXCEPT !.adaptive_scroll_speed = 1000]
    IN  IF time_scrolling < scroll_cooldown
        THEN [_handle_scroll_momentum(s1) EXCEPT !.time_scrolling = 0]
        ELSE sample_or_decay(s1, f, l)

\* handle_scroll_mode without the cooldown gate
handle_scroll_mode_no_cooldown(self, f, l) ==
    LET time_scrolling == self.time_scrolling
        s1 == IF time_scrolling < ACTIVE_SCROLL_WINDOW
              THEN [self EXCEPT !.adaptive_scroll_speed =
                                   Min(MulMilli(@, ADAPTIVE_GROWTH), ADAPTIVE_CAP)]
              ELSE [self EXCEPT !.adaptive_scroll_speed = 1000]
    IN  sample_or_decay(s1, f, l)

handle_scroll_mode(self, f, l) ==
    LET time_scrolling == self.time_scrolling
        s1 == IF time_scrolling < ACTIVE_SCROLL_WINDOW
              THEN [self EXCEPT !.adaptive_scroll_speed =
                                   Min(MulMilli(@, ADAPTIVE_GROWTH), ADAPTIVE_CAP)]
              ELSE [self EXCEPT !.adaptive_scroll_speed = 1000]
    IN  IF time_scrolling < scroll_cooldown
        THEN _handle_scroll_momentum(s1)
        ELSE sample_or_decay(s1, f, l)

----------------------------------------------------------------------------
(* Volume handling *)

\* self.volume.SetMasterVolumeLevel(vol, None)
SetMasterVolumeLevel(self, vol) == [self EXCEPT !.volume_calls = Append(@, vol)]

\* _update_volume mapping from the shortest volume gesture (40px) instead
\* of the lower end of HAND_RANGE
_update_volume_from_gesture_minimum(self, l) ==
    LET length == hypot(X(LM(l, 8)) - X(LM(l, 4)), Y(LM(l, 8)) - Y(LM(l, 4)))
        h == self.finger_distance_history
        smoothed_length ==
            IF Len(h) > 0
            THEN RDiv(7 * length * Len(h) + 3 * sum(h), 10 * Len(h))
            ELSE length
        vol == interp(smoothed_length, MIN_VOLUME_GESTURE_LENGTH, HAND_RANGE[2],
                      VOLUME_RANGE[1], VOLUME_RANGE[2])
    IN  SetMasterVolumeLevel(self, vol)

_update_volume(self, l) ==
    LET x1 == X(LM(l, 4))
        y1 == Y(LM(l, 4))
        x2 == X(LM(l, 8))
        y2 == Y(LM(l, 8))
        length == hypot(x2 - x1, y2 - y1)
        h == self.finger_distance_history
        smoothed_length ==
            IF Len(h) > 0
            THEN RDiv(7 * length * Len(h) + 3 * sum(h), 10 * Len(h))
            ELSE length
        vol == interp(smoothed_length, HAND_RANGE[1], HAND_RANGE[2],
                      VOLUME_RANGE[1], VOLUME_RANGE[2])
    IN  SetMasterVolumeLevel(self, vol)

\* handle_volume_mode updating the volume whatever the gesture
handle_volume_mode_any_gesture(self, f, l) ==
    IF f[Len(f)] = 1 THEN _reset_mode(self)
    ELSE _update_volume(self, l)

handle_volume_mode(self, f, l) ==
    IF f[Len(f)] = 1 THEN _reset_mode(self)
    ELSE IF is_volume_gesture(self, f) THEN _update_volume(self, l)
    ELSE self

----------------------------------------------------------------------------
(* The control loop, GestureController.run *)

\* the clock moves on by dt ms; elapsed times of 500ms and more act alike
advance(self, dt) ==
    [self EXCEPT !.time_scrolling = Min(@ + dt, ACTIVE_SCROLL_WINDOW),
                 !.scroll_calls = <<>>,
                 !.volume_calls = <<>>]

\* a tick without a hand that falls back to the idle mode
AbsentTick_to_idle(dt) ==
    /\ pc = "read"
    /\ controller' = _switch_mode(advance(controller, dt), "N")
    /\ landmark_list' = <<>>
    /\ ticks' = ticks + 1
    /\ old_mode' = controller.mode
    /\ streak' = 0
    /\ streak_mode' = "None"
    /\ UNCHANGED <<fingers, pc, escaped, coast, coast_from, earlier_history>>

\* a tick whose frame shows no hand: the loop body is skipped
AbsentTick(dt) ==
    /\ pc = "read"
    /\ controller' = advance(controller, dt)
    /\ landmark_list' = <<>>
    /\ ticks' = ticks + 1
    /\ old_mode' = controller.mode
    /\ streak' = 0
    /\ streak_mode' = "None"
    /\ UNCHANGED <<fingers, pc, escaped, coast, coast_from, earlier_history>>

\* a tick whose frame shows a hand: detect_fingers, then update_mode
HandTick(l, dt) ==
    /\ pc = "read"
    /\ fingers' = detect_fingers(l)
    /\ controller' = update_mode(detect_fingers_store(advance(controller, dt), l),
                                 fingers')
    \* update_mode always leaves its candidate (new_mode) in pending_mode
    /\ streak' = IF controller'.pending_mode = streak_mode THEN streak + 1 ELSE 1
    /\ streak_mode' = controller'.pending_mode
    /\ escaped' = (escaped /\ ~(controller'.mode = "Volume" /\ controller.mode # "Volume"))
    /\ coast' = IF controller'.mode # controller.mode THEN 0 ELSE coast
    /\ coast_from' = IF controller'.mode # controller.mode
                      THEN controller'.scroll_momentum ELSE coast_from
    /\ earlier_history' = controller.finger_distance_history
    /\ landmark_list' = l
    /\ pc' = "dispatch"
    /\ ticks' = ticks + 1
    /\ old_mode' = controller.mode

HandleScroll ==
    /\ pc = "dispatch"
    /\ controller.mode = "Scroll"
    /\ controller' = handle_scroll_mode(controller, fingers, landmark_list)
    /\ LET sampled == /\ controller.time_scrolling >= scroll_cooldown
                       /\ \/ is_scroll_up_gesture(controller, fingers)
                          \/ is_scroll_down_gesture(controller, fingers)
       IN  /\ coast' = IF sampled THEN 0 ELSE coast + 1
           /\ coast_from' = IF sampled THEN controller'.scroll_momentum ELSE coast_from
    /\ pc' = "read"
    /\ UNCHANGED <<landmark_list, fingers, ticks, old_mode, streak, streak_mode, escaped,
                   earlier_history>>

HandleVolume ==
    /\ pc = "dispatch"
    /\ controller.mode = "Volume"
    /\ controller' = handle_volume_mode(controller, fingers, landmark_list)
    /\ escaped' = (escaped \/ fingers[Len(fingers)] = 1)
    /\ coast' = 0
    /\ coast_from' = controller'.scroll_momentum
    /\ pc' = "read"
    /\ UNCHANGED <<landmark_list, fingers, ticks, old_mode, streak, streak_mode,
                   earlier_history>>

HandleIdle ==
    /\ pc = "dispatch"
    /\ controller.mode \notin {"Scroll", "Volume"}
    /\ pc' = "read"
    /\ UNCHANGED <<controller, landmark_list, fingers, ticks, old_mode, streak,
                   streak_mode, escaped, coast, coast_from, earlier_history>>

----------------------------------------------------------------------------
(* The session: poses and frame intervals the camera may deliver *)

Fist        == Hand(0, 0, 0, 0, 0, 100, 30)

ScrollUp    == Hand(0, 1, 0, 0, 0, 100, 115)

ScrollDown  == Hand(0, 1, 1, 0, 0, 100, 60)

VolumePinch == Hand(1, 1, 0, 0, 0, 100, 30)

Escape      == Hand(1, 1, 0, 0, 1, 100, 30)

Unknown     == Hand(1, 1, 1, 0, 0, 100, 30)

PoseSet == {Fist, ScrollUp, ScrollDown, VolumePinch, Escape, Unknown}

\* frame intervals in ms: inside the cooldown, past it, and past the 500ms window
DtSet == {20, 500}

MaxTicks == 12

Init ==
    /\ controller = InitController(NominalRange)
    /\ landmark_list = <<>>
    /\ fingers = <<>>
    /\ pc = "read"
    /\ ticks = 0
    /\ old_mode = "N"
    /\ streak = 0
    /\ streak_mode = "None"
    /\ escaped = FALSE
    /\ coast = 0
    /\ coast_from = 0
    /\ earlier_history = <<>>

Next ==
    \/ ticks < MaxTicks /\ \E dt \in DtSet : AbsentTick(dt)
    \/ ticks < MaxTicks /\ \E l \in PoseSet, dt \in DtSet : HandTick(l, dt)
    \/ HandleScroll
    \/ HandleVolume
    \/ HandleIdle

Spec == Init /\ [][Next]_vars

----------------------------------------------------------------------------
(* The decay scenario: the session is in Scroll mode, a scroll gesture has *)
(* just sampled a momentum of 10.0, and from here on the hand stays in     *)
(* view showing an unrecognised pose or a scroll gesture.                  *)

SlowScrollDown == Hand(0, 1, 1, 0, 0, 100, 30)

DecayPoses == {Unknown, SlowScrollDown, ScrollUp}

\* frame intervals in ms: inside the cooldown and past it
DecayDts == {20, 40}

MaxDecayTicks == 40

\* the controller at the end of the tick that committed Scroll (the sixth of
\* six scroll ticks) and sampled the momentum m
ScrollingAt(m) ==
    [InitController(NominalRange) EXCEPT
        !.mode = "Scroll",
        !.active = TRUE,
        !.scroll_momentum = m,
        !.adaptive_scroll_speed = ADAPTIVE_GROWTH,
        !.pending_mode = "Scroll",
        !.mode_switch_counter = mode_switch_threshold,
        !.thumb_index_distance = 1000,
        !.finger_distance_history = <<1000, 1000, 1000, 1000, 1000, 1000>>,
        !.scroll_calls = <<int(m)>>]

InitDecay ==
    /\ controller = ScrollingAt(10000)
    /\ landmark_list = ScrollUp
    /\ fingers = detect_fingers(ScrollUp)
    /\ pc = "read"
    /\ ticks = 0
    /\ old_mode = "N"
    /\ streak = mode_switch_threshold + 1
    /\ streak_mode = "Scroll"
    /\ escaped = FALSE
    /\ coast = 0
    /\ coast_from = 10000
    /\ earlier_history = <<1000, 1000, 1000, 1000, 1000>>

NextDecay ==
    \/ ticks < MaxDecayTicks /\ \E l \in DecayPoses, dt \in DecayDts : HandTick(l, dt)
    \/ HandleScroll

SpecDecay == InitDecay /\ [][NextDecay]_vars

----------------------------------------------------------------------------
(* The volume scenario: any device range, the hand showing the pinch at    *)
(* several widths, the escape gesture or an unrecognised pose.             *)

PinchNear == Hand(1, 1, 0, 0, 0, 45, 30)

PinchMid  == Hand(1, 1, 0, 0, 0, 125, 30)

PinchFar  == Hand(1, 1, 0, 0, 0, 250, 30)

VolumePoses == {PinchNear, PinchMid, PinchFar, Escape}

VolumeDts == {40}

MaxVolumeTicks == 7

InitVolume ==
    /\ controller \in {InitController(vr) : vr \in DeviceRanges}
    /\ landmark_list = <<>>
    /\ fingers = <<>>
    /\ pc = "read"
    /\ ticks = 0
    /\ old_mode = "N"
    /\ streak = 0
    /\ streak_mode = "None"
    /\ escaped = FALSE
    /\ coast = 0
    /\ coast_from = 0
    /\ earlier_history = <<>>

NextVolume ==
    \/ ticks < MaxVolumeTicks /\ \E l \in VolumePoses, dt \in VolumeDts : HandTick(l, dt)
    \/ HandleVolume
    \/ HandleIdle

SpecVolume == InitVolume /\ [][NextVolume]_vars

----------------------------------------------------------------------------
(* The steady-pinch scenario: any device range, the hand holding the pinch *)
(* at one width from the first frame on, so that the smoothed distance is  *)
(* the width itself.                                                       *)

\* the volume gesture with the thumb tip w pixels from the index tip
Pinch(w) == Hand(1, 1, 0, 0, 0, w, 30)

\* widths in pixels: below, at and above both ends of HAND_RANGE, the
\* midpoint and points in between
PinchWidths == {41, 45, 49, 50, 51, 60, 75, 100, 124, 125, 126, 150, 175,
                199, 200, 201, 230, 260}

MaxSteadyTicks == 8

\* a frame showing the pinch at the width of the frames before it
SteadyPinchTick(w, dt) ==
    /\ ticks = 0 \/ controller.thumb_index_distance = 10 * w
    /\ HandTick(Pinch(w), dt)

NextSteady ==
    \/ ticks < MaxSteadyTicks
          /\ \E w \in PinchWidths, dt \in VolumeDts : SteadyPinchTick(w, dt)
    \/ HandleVolume
    \/ HandleIdle

SpecSteady == InitVolume /\ [][NextSteady]_vars

----------------------------------------------------------------------------
(* The mirror scenario: a pose, then the same pose seen mirrored or with   *)
(* the palm turned the other way, frame after frame.                       *)

\* the pose l with the thumb tip dThumb pixels right of the thumb base and
\* the pinky base dPalm pixels right of the index base
Posed(l, dThumb, dPalm) ==
    [l EXCEPT ![5]  = <<4, X(LM(l, 3)) + dThumb, Y(LM(l, 4))>>,
              ![18] = <<17, X(LM(l, 5)) + dPalm, Y(LM(l, 17))>>]

\* the pose as the camera sees it in a mirror: every x reflected in the frame
Mirror(l) ==
    [k \in DOMAIN l |-> <<l[k][1], CAMERA_WIDTH - 1 - X(l[k]), Y(l[k])>>]

\* the pose with the same thumb but the other orientation: the pinky base
\* reflected about the index base
OtherHand(l) ==
    [l EXCEPT ![18] = <<17, 2 * X(LM(l, 5)) - X(LM(l, 17)), Y(LM(l, 17))>>]

\* thumb tip left of, level with and right of its base; pinky base level
\* with and right of the index base
MirrorPoses ==
    {Posed(l, dThumb, dPalm) : l \in PoseSet, dThumb \in {-20, 0, 20},
                               dPalm \in {0, 120}}

MaxMirrorTicks == 3

NextMirror ==
    \/ ticks = 0 /\ \E l \in MirrorPoses, dt \in VolumeDts : HandTick(l, dt)
    \/ ticks > 0 /\ ticks < MaxMirrorTicks
          /\ \E dt \in VolumeDts : HandTick(Mirror(landmark_list), dt)
    \/ ticks > 0 /\ ticks < MaxMirrorTicks
          /\ \E dt \in VolumeDts : HandTick(OtherHand(landmark_list), dt)
    \/ HandleIdle

SpecMirror == Init /\ [][NextMirror]_vars

----------------------------------------------------------------------------
(* The sustained-scroll scenario: the session is in Scroll mode and the    *)
(* hand keeps showing scroll gestures, slow and fast, with frames inside   *)
(* the cooldown and frames after a pause of half a second.                 *)

FastScrollDown == Hand(0, 1, 1, 0, 0, 100, 220)

AdaptivePoses == {ScrollUp, SlowScrollDown, FastScrollDown}

\* frame intervals in ms: inside the cooldown, and the 500ms window
AdaptiveDts == {20, 500}

MaxAdaptiveTicks == 42

NextAdaptive ==
    \/ ticks < MaxAdaptiveTicks
          /\ \E l \in AdaptivePoses, dt \in AdaptiveDts : HandTick(l, dt)
    \/ HandleScroll

SpecAdaptive == InitDecay /\ [][NextAdaptive]_vars

----------------------------------------------------------------------------
(* The classification scenario: in each committed mode, a frame showing    *)
(* any of the 32 finger patterns with the thumb tip at a distance below,   *)
(* at and above both distance thresholds.                                  *)

\* the controller at the end of the tick that committed Volume (the sixth
\* of six pinch ticks at 100px) and emitted the level vol
VolumeAt(vol) ==
    [InitController(NominalRange) EXCEPT
        !.mode = "Volume",
        !.active = TRUE,
        !.pending_mode = "Volume",
        !.mode_switch_counter = mode_switch_threshold,
        !.thumb_index_distance = 1000,
        !.finger_distance_history = <<1000, 1000, 1000, 1000, 1000, 1000>>,
        !.volume_calls = <<vol>>]

\* thumb-index distances in pixels, around 40 and around 80
ClassifyDistances == {30, 40, 41, 80, 81, 100}

ClassifyPoses ==
    {Hand(th, ix, mi, ri, pk, ti, 30) :
        th \in {0, 1}, ix \in {0, 1}, mi \in {0, 1}, ri \in {0, 1}, pk \in {0, 1},
        ti \in ClassifyDistances}

MaxClassifyTicks == 1

InitClassify ==
    /\ controller \in { InitController(NominalRange),
                        ScrollingAt(10000),
                        VolumeAt(interp(1000, HAND_RANGE[1], HAND_RANGE[2],
                                        VOLUME_RANGE[1], VOLUME_RANGE[2])) }
    /\ landmark_list = <<>>
    /\ fingers = <<>>
    /\ pc = "read"
    /\ ticks = 0
    /\ old_mode = controller.mode
    /\ streak = 0
    /\ streak_mode = "None"
    /\ escaped = FALSE
    /\ coast = 0
    /\ coast_from = controller.scroll_momentum
    /\ earlier_history = <<>>

NextClassify ==
    \/ ticks < MaxClassifyTicks
          /\ \E l \in ClassifyPoses, dt \in VolumeDts : HandTick(l, dt)
    \/ HandleScroll
    \/ HandleVolume
    \/ HandleIdle

SpecClassify == InitClassify /\ [][NextClassify]_vars

----------------------------------------------------------------------------
(* The history scenario: frames showing the pinch at two widths, or no     *)
(* hand, for more ticks than the distance history holds.                   *)

HistoryPoses == {PinchNear, PinchMid}

MaxHistoryTicks == 12

NextHistory ==
    \/ ticks < MaxHistoryTicks /\ \E dt \in VolumeDts : AbsentTick(dt)
    \/ ticks < MaxHistoryTicks
          /\ \E l \in HistoryPoses, dt \in VolumeDts : HandTick(l, dt)
    \/ HandleVolume
    \/ HandleIdle

SpecHistory == Init /\ [][NextHistory]_vars

----------------------------------------------------------------------------
(* The orientation scenario: poses with the pinky base left of the index   *)
(* base, between the index base and the middle base, and right of both.    *)

OrientPoses ==
    {Posed(l, dThumb, dPalm) : l \in PoseSet, dThumb \in {-20, 20},
                               dPalm \in {-120, 20, 120}}

MaxOrientTicks == 2

NextOrient ==
    \/ ticks < MaxOrientTicks
          /\ \E l \in OrientPoses, dt \in VolumeDts : HandTick(l, dt)
    \/ HandleIdle

SpecOrient == Init /\ [][NextOrient]_vars

----------------------------------------------------------------------------
(* The fast-camera scenario: the session is in Scroll mode, a scroll       *)
(* gesture is held on every frame, and the frames arrive 5 or 10ms apart,  *)
(* several of them inside one cooldown.                                    *)

HeldScrollPoses == {ScrollUp, SlowScrollDown}

CooldownDts == {5, 10}

\* the shortest interval between two frames
MinFrameInterval == CHOOSE d \in CooldownDts : \A e \in CooldownDts : d <= e

MaxCooldownTicks == 12

NextCooldown ==
    \/ ticks < MaxCooldownTicks
          /\ \E l \in HeldScrollPoses, dt \in CooldownDts : HandTick(l, dt)
    \/ HandleScroll

SpecCooldown == InitDecay /\ [][NextCooldown]_vars

----------------------------------------------------------------------------
(* The coasting scenario: the session is in Scroll mode with a momentum of *)
(* 10.0 and the scroll gesture has ended: from here on every frame shows   *)
(* an unrecognised pose, the fist, or no hand at all.                      *)

CoastPoses == {Unknown, Fist}

\* one frame interval, inside the cooldown: the elapsed time passes it on
\* every second tick
CoastDts == {20}

MaxCoastTicks == 39

NextCoast ==
    \/ ticks < MaxCoastTicks /\ \E dt \in CoastDts : AbsentTick(dt)
    \/ ticks < MaxCoastTicks /\ \E l \in CoastPoses, dt \in CoastDts : HandTick(l, dt)
    \/ HandleScroll
    \/ HandleIdle

SpecCoast == InitDecay /\ [][NextCoast]_vars

----------------------------------------------------------------------------
(* Claims on the mode state machine, checked under Spec *)

\* C1: the committed mode changes only on a tick that completes a run of at
\* least stabilityThreshold consecutive ticks with the same candidate mode;
\* a gesture seen on fewer consecutive ticks never changes it.
C1_Hysteresis ==
    [][controller'.mode # controller.mode
         => streak' >= mode_switch_threshold]_vars

\* C2: fed on consecutive ticks, a gesture whose candidate differs from the
\* committed mode sets the stability counter to 1 on the first tick on which
\* it differs from the pending candidate, increments it on each further
\* tick, and commits on the stabilityThreshold-th consecutive tick.
C2_CountAndCommit ==
    [][(pc = "read" /\ pc' = "dispatch" /\ streak_mode' # controller.mode)
         => /\ streak_mode' # controller.pending_mode
                 => controller'.mode_switch_counter = 1
            /\ streak_mode' = controller.pending_mode
                 => controller'.mode_switch_counter
                      = controller.mode_switch_counter + 1
            /\ streak' = mode_switch_threshold
                 => controller'.mode = streak_mode']_vars

\* C3: an Escape tick (pinky extended) in Volume mode leaves the committed
\* mode Idle, whatever the stability counter, and no volume command is
\* emitted afterwards until Volume is committed again.
C3_EscapeExitsVolume ==
    [][/\ (pc = "dispatch" /\ pc' = "read" /\ controller.mode = "Volume"
             /\ fingers[5] = 1)
            => controller'.mode = "N"
       /\ escaped' => controller'.volume_calls = <<>>]_vars

\* C4: after a tick without a hand the pending candidate is none and the
\* stability counter is 0.
C4_AbsentResetsPending ==
    landmark_list = <<>>
        => /\ controller.pending_mode = "None"
           /\ controller.mode_switch_counter = 0

\* C5: a tick without a hand leaves the committed mode and the scroll
\* momentum as they were.
C5_AbsentKeepsModeAndMomentum ==
    [][landmark_list' = <<>>
         => /\ controller'.mode = controller.mode
            /\ controller'.scroll_momentum = controller.scroll_momentum]_vars

\* a tick without a hand has passed in Scroll mode with momentum left
C5_Witness ==
    /\ ticks > 0
    /\ landmark_list = <<>>
    /\ controller.mode = "Scroll"
    /\ controller.scroll_momentum # 0

\* C6: every step that changes the committed mode leaves the scroll momentum
\* 0 and the adaptive multiplier 1.0.
C6_CommitCleanSlate ==
    [][controller'.mode # controller.mode
         => /\ controller'.scroll_momentum = 0
            /\ controller'.adaptive_scroll_speed = 1000]_vars

\* Volume has just been committed from Scroll
C6_Witness ==
    /\ pc = "dispatch"
    /\ old_mode = "Scroll"
    /\ controller.mode = "Volume"
    /\ controller.scroll_momentum = 0
    /\ controller.adaptive_scroll_speed = 1000

\* C8: scroll commands come only from ticks in Scroll mode, volume commands
\* only from ticks in Volume mode with the volume gesture, at most one volume
\* command a tick, and never both kinds in one tick.
C8_CommandsByMode ==
    /\ controller.scroll_calls # <<>> => controller.mode = "Scroll"
    /\ controller.volume_calls # <<>>
         => /\ controller.mode = "Volume"
            /\ is_volume_gesture(controller, fingers)
    /\ Len(controller.volume_calls) <= 1
    /\ ~(controller.scroll_calls # <<>> /\ controller.volume_calls # <<>>)

\* a volume command has been emitted
C8_Witness ==
    /\ pc = "read"
    /\ controller.mode = "Volume"
    /\ Len(controller.volume_calls) = 1

----------------------------------------------------------------------------
(* Claims on the scroll commands and the momentum, checked under SpecDecay *)

\* C7: a tick emits at most one scroll command, and never a zero one.
C7_ScrollCommand ==
    /\ Len(controller.scroll_calls) <= 1
    /\ \A i \in DOMAIN controller.scroll_calls :
          Abs(controller.scroll_calls[i]) >= 1

\* a cooldown tick with a scroll gesture held has emitted its one command,
\* from the momentum
C7_Witness ==
    /\ pc = "read"
    /\ ticks > 0
    /\ controller.time_scrolling > 0
    /\ is_scroll_down_gesture(controller, fingers)
    /\ Len(controller.scroll_calls) = 1

\* 10.0 * 0.92^k in thousandths, for k = 0, 1, ... (entry k + 1)
DecayRef ==
    << 10000, 9200, 8464, 7787, 7164, 6591, 6064, 5578, 5132, 4722,
       4344, 3996, 3677, 3383, 3112, 2863, 2634, 2423, 2229, 2051,
       1887, 1736, 1597, 1469, 1352, 1244, 1144, 1053, 968, 891,
       820, 754, 694, 638, 587, 540, 497, 457, 421, 387,
       356, 328, 301, 277, 255, 235, 216, 199, 183, 168 >>

\* the rounding a chain of products may accumulate, in thousandths: half a
\* unit a product, each shrunk by the decay of the later ticks, and one more
DecayTolerance == (1000 \div (2 * (1000 - SCROLL_MOMENTUM_DECAY))) + 1

\* the momentum is within rounding of 10.0 * 0.92^k
NearDecayRef(k) ==
    Abs(controller.scroll_momentum - DecayRef[k + 1]) <= DecayTolerance

\* no scroll command is emitted on a tick that ends with |momentum| < 0.5
QuietBelowThreshold ==
    Abs(controller.scroll_momentum) < MOMENTUM_THRESHOLD
        => controller.scroll_calls = <<>>

LastDecayTick ==
    CHOOSE k \in 0 .. Len(DecayRef) - 1 :
        /\ DecayRef[k + 1] <= MOMENTUM_THRESHOLD
        /\ \A j \in 0 .. k - 1 : DecayRef[j + 1] > MOMENTUM_THRESHOLD

----------------------------------------------------------------------------
(* Claims on the volume commands, checked under SpecVolume *)

\* C9: every emitted volume level lies within the range the audio device
\* reported at session start.
C9_VolumeWithinDeviceRange ==
    \A i \in DOMAIN controller.volume_calls :
        /\ controller.volume_range[1] <= controller.volume_calls[i]
        /\ controller.volume_calls[i] <= controller.volume_range[2]

----------------------------------------------------------------------------
(* Claims on coasting, checked under SpecCoast *)

\* the number of ticks that take a momentum of 10.0 to exactly 0 when every
\* tick decays it: the decay ticks and the tick that snaps
SettleTicks == LastDecayTick + 1

\* C11: in Scroll mode, once no scroll gesture is active (unrecognised pose,
\* fist not yet committed, or no hand) and ticks keep arriving, the momentum
\* becomes exactly 0 and no scroll command is emitted after that.  From a
\* momentum of 10.0 the decay takes SettleTicks ticks.
C11_MomentumSettles ==
    (pc = "read" /\ ticks >= SettleTicks)
        => /\ controller.scroll_momentum = 0
           /\ controller.scroll_calls = <<>>

----------------------------------------------------------------------------
(* Claims on the volume mapping, checked under SpecSteady *)

\* C12: the volume mapping sends a smoothed distance of 50px to -63.5, of
\* 200px to 0.0 and of 125px to -31.75, is linear (with a positive slope, so
\* non-decreasing) in between, and clamps: below 50px it gives -63.5 and
\* above 200px 0.0.  Distances in tenths of a pixel, levels in thousandths;
\* under a steady pinch the smoothed distance is thumb_index_distance.
C12_VolumeMapping ==
    \A i \in DOMAIN controller.volume_calls :
        LET d   == controller.thumb_index_distance
            vol == controller.volume_calls[i]
        IN  /\ d <= 500 => vol = -63500
            /\ d >= 2000 => vol = 0
            /\ d = 1250 => vol = -31750
            /\ (500 < d /\ d < 2000)
                  => /\ Abs(1500 * (vol + 63500) - 63500 * (d - 500)) <= 750
                     /\ -63500 <= vol /\ vol <= 0

\* the pinch held at the midpoint, 125px, has emitted -31.75
C12_Witness ==
    /\ pc = "read"
    /\ controller.thumb_index_distance = 1250
    /\ controller.volume_calls = <<-31750>>

----------------------------------------------------------------------------
(* Claims on the volume smoothing, checked under SpecVolume *)

\* the level one tenth of a pixel of smoothed distance is worth, rounded up:
\* what the rounding of the smoothed distance may move a level by
LevelTolerance ==
    ((VOLUME_RANGE[2] - VOLUME_RANGE[1]) \div (HAND_RANGE[2] - HAND_RANGE[1])) + 1

\* 0.7 * raw + 0.3 * mean(h), or raw when h is empty
SmoothedOver(raw, h) ==
    IF Len(h) > 0 THEN RDiv(7 * raw * Len(h) + 3 * sum(h), 10 * Len(h)) ELSE raw

\* C13: on a volume-update tick the emitted level derives from
\* 0.7 * raw + 0.3 * mean(history), where the history holds only the samples
\* of earlier ticks (the raw distance of this tick is pushed afterwards);
\* with an empty history it derives from raw.
C13_SmoothingOverEarlierTicks ==
    \A i \in DOMAIN controller.volume_calls :
        Abs(controller.volume_calls[i]
              - interp(SmoothedOver(controller.thumb_index_distance, earlier_history),
                       HAND_RANGE[1], HAND_RANGE[2],
                       VOLUME_RANGE[1], VOLUME_RANGE[2]))
            <= LevelTolerance

----------------------------------------------------------------------------
(* Claims on handedness, checked under SpecMirror *)

\* the current frame shows the pose of the frame before it, transformed
FrameAfter(l, m) ==
    pc = "read" /\ pc' = "dispatch" /\ l # <<>> /\ landmark_list' = m

\* the thumb tip and the thumb base of pose l have different x-coordinates
ThumbOffAxis(l) == X(LM(l, 4)) # X(LM(l, 3))

\* the index base and the pinky base of pose l have different x-coordinates
PalmOffAxis(l) == X(LM(l, 17)) # X(LM(l, 5))

\* C14 as stated: for every pair of thumb-tip and thumb-base x-coordinates
\* the thumb bit under one orientation is the opposite of the one under the
\* other orientation, and every pose and its mirror image yield the same
\* finger vector and the same gesture.
C14_HandednessSymmetry ==
    [][/\ (FrameAfter(landmark_list, OtherHand(landmark_list))
             /\ hand_direction(landmark_list') # hand_direction(landmark_list))
            => fingers'[1] = 1 - fingers[1]
       /\ FrameAfter(landmark_list, Mirror(landmark_list))
            => /\ fingers' = fingers
               /\ gesture(controller', fingers') = gesture(controller, fingers)]_vars

\* C14 amended: the thumb bits are opposite when the thumb tip and base
\* differ in x and both 0 when they do not; a pose whose index base and
\* pinky base differ in x and its mirror image yield the same finger vector
\* and the same gesture.
C14_SymmetryOffAxis ==
    [][/\ (FrameAfter(landmark_list, OtherHand(landmark_list))
             /\ hand_direction(landmark_list') # hand_direction(landmark_list))
            => IF ThumbOffAxis(landmark_list)
               THEN fingers'[1] = 1 - fingers[1]
               ELSE fingers'[1] = 0 /\ fingers[1] = 0
       /\ (FrameAfter(landmark_list, Mirror(landmark_list))
             /\ PalmOffAxis(landmark_list))
            => /\ fingers' = fingers
               /\ gesture(controller', fingers') = gesture(controller, fingers)]_vars

\* a left-oriented frame, which follows a right-oriented one, shows the
\* volume pinch with the thumb extended
C14_Witness ==
    /\ pc = "dispatch"
    /\ ticks = 2
    /\ X(LM(landmark_list, 17)) < X(LM(landmark_list, 5))
    /\ fingers[1] = 1
    /\ gesture(controller, fingers) = "VolumePinch"

----------------------------------------------------------------------------
(* Claims on sampling and the adaptive multiplier, checked under           *)
(* SpecAdaptive                                                            *)

\* the step is the scroll handler of a tick
ScrollHandlerStep ==
    pc = "dispatch" /\ pc' = "read" /\ controller.mode = "Scroll"

\* C15: the adaptive multiplier is at least 1.0 and at most 1.5 in every
\* state; a Scroll-mode tick multiplies it by 1.01, capped at 1.5, when less
\* than 500ms elapsed since the last action, and resets it to 1.0 otherwise.
C15_AdaptiveMultiplier ==
    [][/\ 1000 <= controller.adaptive_scroll_speed
       /\ 1000 <= controller'.adaptive_scroll_speed
       /\ controller.adaptive_scroll_speed <= 1500
       /\ controller'.adaptive_scroll_speed <= 1500
       /\ ScrollHandlerStep
            => controller'.adaptive_scroll_speed
                 = IF controller.time_scrolling < 500
                   THEN Min(RDiv(controller.adaptive_scroll_speed * 101, 100), 1500)
                   ELSE 1000]_vars

\* sustained scrolling has brought the multiplier to its cap
C15_Witness ==
    /\ pc = "read"
    /\ ticks > 0
    /\ controller.mode = "Scroll"
    /\ controller.adaptive_scroll_speed = 1500

\* C17: on a Scroll-mode tick outside the cooldown a ScrollUp gesture sets
\* the momentum to +speed and emits a strictly positive command, a
\* ScrollDown gesture sets it to -speed and emits a strictly negative one;
\* the command is the sampled speed truncated to whole units, never zero.
C17_DirectionAndTruncation ==
    [][(ScrollHandlerStep /\ controller.time_scrolling >= scroll_cooldown)
         => LET speed == calculate_scroll_speed(controller', landmark_list)
                whole == speed \div 1000
            IN  /\ is_scroll_up_gesture(controller, fingers)
                     => /\ controller'.scroll_momentum = speed
                        /\ controller'.scroll_calls = <<whole>>
                        /\ whole > 0
                /\ is_scroll_down_gesture(controller, fingers)
                     => /\ controller'.scroll_momentum = -speed
                        /\ controller'.scroll_calls = <<-whole>>
                        /\ -whole < 0]_vars

\* a ScrollDown gesture has sampled a speed with a fraction of a half or
\* more and emitted it truncated
C17_Witness ==
    /\ pc = "read"
    /\ ticks > 0
    /\ controller.time_scrolling = 0
    /\ is_scroll_down_gesture(controller, fingers)
    /\ (-controller.scroll_momentum) % 1000 >= 500
    /\ controller.scroll_calls = <<-((-controller.scroll_momentum) \div 1000)>>

----------------------------------------------------------------------------
(* Claims on unrecognised gestures, checked under Spec *)

\* the step is the detect_fingers and update_mode part of a tick with a hand
HandStep == pc = "read" /\ pc' = "dispatch"

\* C16: a tick whose gesture is Unknown takes the committed mode as its
\* candidate, so it never changes the committed mode, however long the run
\* of Unknown ticks; inside a run of a non-current gesture it resets the
\* stability counter, and the gesture that follows starts its count afresh.
C16_UnknownRetainsMode ==
    [][HandStep
         => /\ gesture(controller', fingers') = "Unknown"
                 => /\ controller'.mode = controller.mode
                    /\ controller'.pending_mode = controller.mode
            /\ (gesture(controller', fingers') = "Unknown"
                  /\ controller.pending_mode # controller.mode)
                 => controller'.mode_switch_counter = 0
            /\ (controller.pending_mode = controller.mode
                  /\ controller'.pending_mode # controller.mode)
                 => /\ controller'.mode_switch_counter = 0
                    /\ controller'.mode = controller.mode]_vars

\* in Scroll mode an Unknown tick has just interrupted the run of another
\* gesture: the pending candidate is Scroll again and the counter 0
C16_Witness ==
    /\ pc = "dispatch"
    /\ gesture(controller, fingers) = "Unknown"
    /\ controller.mode = "Scroll"
    /\ controller.pending_mode = "Scroll"
    /\ controller.mode_switch_counter = 0
    /\ streak = 1

----------------------------------------------------------------------------
(* Claims on the cooldown and the snap, checked under SpecDecay *)

\* C18 as stated: the time since the last action is 0 after every Scroll-mode
\* tick (last_scroll_time is set to the current time), the ticks skipped by
\* the cooldown gate included.
C18_StampOnEveryScrollTick ==
    [][ScrollHandlerStep => controller'.time_scrolling = 0]_vars

\* C18 amended: last_scroll_time is set to the current time on every
\* Scroll-mode tick that passes the cooldown gate and is left as it was on
\* the ticks the gate skips.
C18_StampPastCooldown ==
    [][ScrollHandlerStep
         => controller'.time_scrolling
              = IF controller.time_scrolling < scroll_cooldown
                THEN controller.time_scrolling
                ELSE 0]_vars

\* a tick skipped by the cooldown gate has ended with the 20ms since the
\* last action still on the clock
C18_Witness ==
    /\ pc = "read"
    /\ ticks > 0
    /\ controller.mode = "Scroll"
    /\ controller.time_scrolling > 0
    /\ controller.time_scrolling < scroll_cooldown

\* C19: on a Scroll-mode tick less than scroll_cooldown after the last
\* action no speed is sampled, even with a scroll gesture held: the momentum
\* is decayed (or snapped to 0), never set from the gesture.
C19_CooldownGate ==
    [][(ScrollHandlerStep /\ controller.time_scrolling < scroll_cooldown)
         => /\ controller'.scroll_momentum
                  = IF Abs(controller.scroll_momentum) > MOMENTUM_THRESHOLD
                    THEN MulMilli(controller.scroll_momentum, SCROLL_MOMENTUM_DECAY)
                    ELSE 0
            /\ Abs(controller'.scroll_momentum) <= Abs(controller.scroll_momentum)
            /\ controller'.scroll_calls # <<>>
                 => controller'.scroll_calls = <<round(controller'.scroll_momentum)>>]_vars

\* a cooldown tick with the ScrollUp gesture held has decayed the momentum
\* of the tick before
C19_Witness ==
    /\ pc = "read"
    /\ controller.time_scrolling > 0
    /\ is_scroll_up_gesture(controller, fingers)
    /\ coast = 1
    /\ controller.scroll_momentum = MulMilli(coast_from, SCROLL_MOMENTUM_DECAY)
    /\ controller.scroll_momentum # calculate_scroll_speed(controller, landmark_list)

\* C20 as stated: at the end of every tick the momentum is 0 or has a
\* magnitude of at least 0.5.
C20_ZeroOrAboveThreshold ==
    pc = "read"
        => \/ controller.scroll_momentum = 0
           \/ Abs(controller.scroll_momentum) >= 500

\* the decay tick of this step started at or below the threshold
DecayStepAtThreshold ==
    /\ ScrollHandlerStep
    /\ Abs(controller.scroll_momentum) <= MOMENTUM_THRESHOLD
    /\ \/ controller.time_scrolling < scroll_cooldown
       \/ ~(is_scroll_up_gesture(controller, fingers)
              \/ is_scroll_down_gesture(controller, fingers))

\* C20 amended: a decay tick that starts with |momentum| <= 0.5 snaps the
\* momentum to exactly 0, and at the end of every tick the momentum is 0 or
\* has a magnitude above 0.46 (0.5 * 0.92): the decay tick that takes it
\* below 0.5 leaves it there, and the next decay tick snaps it.
C20_SnapOnNextDecayTick ==
    [][/\ DecayStepAtThreshold => controller'.scroll_momentum = 0
       /\ pc' = "read"
            => \/ controller'.scroll_momentum = 0
               \/ Abs(controller'.scroll_momentum)
                     > MulMilli(MOMENTUM_THRESHOLD, SCROLL_MOMENTUM_DECAY)]_vars

\* a decay tick has snapped a momentum of magnitude below 0.5 to 0
C20_Witness ==
    /\ pc = "read"
    /\ coast > 0
    /\ controller.scroll_momentum = 0
    /\ controller.scroll_calls = <<>>
    /\ coast_from = 10000
    /\ coast = SettleTicks

----------------------------------------------------------------------------
(* Claims on the decay factor, checked under SpecDecay *)

\* the step is a scroll handler that decays: inside the cooldown, or with
\* no scroll gesture shown
DecayStep ==
    /\ ScrollHandlerStep
    /\ \/ controller.time_scrolling < scroll_cooldown
       \/ ~(is_scroll_up_gesture(controller, fingers)
              \/ is_scroll_down_gesture(controller, fingers))

----------------------------------------------------------------------------
(* Claims on the classification, checked under SpecClassify *)

\* the rows of the priority table that match finger vector f at thumb-index
\* distance d (tenths of a pixel), by row number
MatchingRows(f, d) ==
    { r \in 1 .. 5 :
        \/ r = 1 /\ f = <<0, 0, 0, 0, 0>>
        \/ r = 2 /\ f[5] = 1
        \/ r = 3 /\ f = <<1, 1, 0, 0, 0>> /\ d > 400
        \/ r = 4 /\ f = <<0, 1, 0, 0, 0>> /\ d > 800
        \/ r = 5 /\ f = <<0, 1, 1, 0, 0>> }

\* the candidate mode the table gives, first match wins: Idle, Escape
\* (retain), Volume, Scroll, Scroll, otherwise Unknown (retain)
TableCandidate(f, d, mode) ==
    LET rows == MatchingRows(f, d)
    IN  IF 1 \in rows THEN "N"
        ELSE IF 2 \in rows THEN mode
        ELSE IF 3 \in rows THEN "Volume"
        ELSE IF 4 \in rows THEN "Scroll"
        ELSE IF 5 \in rows THEN "Scroll"
        ELSE mode

\* C22: for every finger vector and thumb-index distance the candidate mode
\* of the tick is the one the priority table gives, Escape and Unknown
\* retaining the committed mode, and at most one row of the table matches.
C22_PriorityTable ==
    [][HandStep
         => /\ controller'.pending_mode
                 = TableCandidate(fingers', controller'.thumb_index_distance,
                                  controller.mode)
            /\ Cardinality(MatchingRows(fingers',
                                        controller'.thumb_index_distance)) <= 1]_vars

\* in Volume mode, index alone with the thumb tip at exactly 80px: no row
\* matches and the candidate is the committed mode
C22_Witness ==
    /\ pc = "dispatch"
    /\ fingers = <<0, 1, 0, 0, 0>>
    /\ controller.thumb_index_distance = 800
    /\ controller.mode = "Volume"
    /\ controller.pending_mode = "Volume"

----------------------------------------------------------------------------
(* Claims on the distance history, checked under SpecHistory *)

\* h2 is h1 with the sample d pushed: d is last, the samples before it are
\* those of h1 in their order, and the oldest is gone when h1 held cap
PushedOnce(h1, h2, d, cap) ==
    LET gone == IF Len(h1) >= cap THEN 1 ELSE 0
    IN  /\ Len(h2) = Len(h1) + 1 - gone
        /\ h2[Len(h2)] = d
        /\ \A i \in 1 .. Len(h2) - 1 : h2[i] = h1[i + gone]

\* C23: the thumb-index distance is appended to the history exactly once on
\* every tick with a hand and on no other step; the history never holds
\* more than 10 samples and, once full, holds the 10 most recent ones in
\* arrival order.
C23_DistanceHistory ==
    [][/\ HandStep
            => PushedOnce(controller.finger_distance_history,
                          controller'.finger_distance_history,
                          controller'.thumb_index_distance, 10)
       /\ ~HandStep
            => controller'.finger_distance_history
                 = controller.finger_distance_history
       /\ Len(controller'.finger_distance_history) <= 10]_vars

\* the history was full when this tick pushed its sample: the oldest sample,
\* which differed from this one, has been evicted
C23_Witness ==
    /\ pc = "dispatch"
    /\ Len(earlier_history) = 10
    /\ Len(controller.finger_distance_history) = 10
    /\ earlier_history[1] # controller.thumb_index_distance
    /\ controller.finger_distance_history # earlier_history

----------------------------------------------------------------------------
(* Claims on the orientation, checked under SpecOrient *)

\* the thumb bit of pose l when the orientation is "right" exactly when
\* landmark a lies right of landmark b
ThumbBitBy(l, a, b) ==
    IF X(LM(l, a)) > X(LM(l, b))
    THEN (IF X(LM(l, 4)) < X(LM(l, 3)) THEN 1 ELSE 0)
    ELSE (IF X(LM(l, 4)) > X(LM(l, 3)) THEN 1 ELSE 0)

\* C24: the orientation is decided by comparing the x-coordinates of the
\* pinky base (landmark 17) and the middle-finger base (landmark 9) and by
\* nothing else: the thumb bit of every frame is the one that comparison
\* gives.
C24_OrientationBy17And9 ==
    pc = "dispatch" => fingers[1] = ThumbBitBy(landmark_list, 17, 9)

----------------------------------------------------------------------------
(* Claims on the mode and the scroll state, checked under Spec *)

\* C25: at the end of every tick a momentum other than 0 or a multiplier
\* other than 1.0 implies that the committed mode is Scroll: in Idle and in
\* Volume mode the momentum is 0 and the multiplier 1.0.
C25_ScrollStateOnlyInScroll ==
    (pc = "read" /\ controller.mode # "Scroll")
        => /\ controller.scroll_momentum = 0
           /\ controller.adaptive_scroll_speed = 1000

\* a tick that started in Scroll mode has ended in Idle mode
C25_Witness ==
    /\ pc = "read"
    /\ old_mode = "Scroll"
    /\ controller.mode = "N"
    /\ controller.scroll_momentum = 0
    /\ controller.adaptive_scroll_speed = 1000

\* C26: the active flag is true exactly when the committed mode is Scroll or
\* Volume, and false exactly when it is Idle.
C26_ActiveIffScrollOrVolume ==
    controller.active <=> controller.mode \in {"Scroll", "Volume"}

----------------------------------------------------------------------------
(* Claims on the end of the cooldown, checked under SpecCooldown *)

\* C27: in Scroll mode with a scroll gesture held on every tick and time
\* advancing, the cooldown gate cannot skip sampling for ever: the ticks
\* skipped in a row span less than the cooldown, and the tick after them
\* samples a speed and emits the command of the gesture.
C27_CooldownEnds ==
    [][/\ coast' * MinFrameInterval < scroll_cooldown
       /\ (ScrollHandlerStep /\ controller.time_scrolling >= scroll_cooldown)
            => /\ coast' = 0
               /\ Abs(controller'.scroll_momentum)
                    = calculate_scroll_speed(controller', landmark_list)
               /\ controller'.scroll_calls = <<int(controller'.scroll_momentum)>>]_vars

\* four ticks in a row have been skipped by the cooldown gate, 20ms after
\* the last sample
C27_Witness ==
    /\ pc = "read"
    /\ coast = 4
    /\ controller.time_scrolling = 20
    /\ is_scroll_up_gesture(controller, fingers)

----------------------------------------------------------------------------
(* Claims on the size of the speed, checked under SpecAdaptive *)

\* the tick that just ended passed the cooldown gate with a scroll gesture
\* shown: its momentum is the sampled speed, signed
SampledThisTick ==
    /\ pc = "read"
    /\ ticks > 0
    /\ controller.time_scrolling = 0
    /\ \/ is_scroll_up_gesture(controller, fingers)
       \/ is_scroll_down_gesture(controller, fingers)

\* C28: every sampled speed lies in [1, 45], so |momentum| <= 45 in every
\* state and every emitted scroll command has a magnitude of at most 45.
C28_SpeedRange ==
    /\ SampledThisTick => Abs(controller.scroll_momentum) >= 1000
    /\ Abs(controller.scroll_momentum) <= 45000
    /\ \A i \in DOMAIN controller.scroll_calls :
          Abs(controller.scroll_calls[i]) <= 45

\* the fast ScrollDown gesture under the capped multiplier has sampled the
\* largest speed, 45, and emitted -45
C28_Witness ==
    /\ SampledThisTick
    /\ controller.scroll_momentum = -45000
    /\ controller.scroll_calls = <<-45>>

====
